---- MODULE Spec2Model ----
(***************************************************************************)
(* WeekDataProcessor (src/src/WeekDataProcessor.py): CSV rows are grouped  *)
(* into relative calendar weeks, every week is completed to the configured *)
(* day set, and the placeholders of a Word template are replaced week by   *)
(* week, cell by cell.                                                     *)
(*                                                                         *)
(* Text is a sequence of one-character strings, so that upper(), strip(),  *)
(* replace(), the f-strings and strptime/strftime are computed on          *)
(* characters the way Python computes them.                                *)
(***************************************************************************)
EXTENDS Integers, Sequences, FiniteSets, TLC

VARIABLES data, fill, pc, weeks_data, order, log, wi, ci, general, document, calls

vars == <<data, fill, pc, weeks_data, order, log, wi, ci, general, document, calls>>

---------------------------------------------------------------------------
(* Python str primitives                                                   *)

LowerChars == <<"a","b","c","d","e","f","g","h","i","j","k","l","m",
                "n","o","p","q","r","s","t","u","v","w","x","y","z">>

UpperChars == <<"A","B","C","D","E","F","G","H","I","J","K","L","M",
                "N","O","P","Q","R","S","T","U","V","W","X","Y","Z">>

DigitChars == <<"0","1","2","3","4","5","6","7","8","9">>

WhiteChars == {" ", "\n", "\t", "\r"}

\* the upper-case letter of every lower-case letter
UpperOf == [c \in {LowerChars[i] : i \in 1..26} |->
               UpperChars[CHOOSE i \in 1..26 : LowerChars[i] = c]]

\* the value of every digit
DigitOf == [c \in {DigitChars[i] : i \in 1..10} |->
               (CHOOSE i \in 1..10 : DigitChars[i] = c) - 1]

\* str.upper() on one character (ASCII letters; every other character is kept)
UpChar(c) == IF c \in DOMAIN UpperOf THEN UpperOf[c] ELSE c

\* str.upper()
Upper(s) == [i \in 1..Len(s) |-> UpChar(s[i])]

\* s.startswith(p)
StartsWith(s, p) == Len(p) <= Len(s) /\ SubSeq(s, 1, Len(p)) = p

\* the positions at which sub occurs in s (sub is not empty)
Occurrences(s, sub) ==
    {i \in 1..(Len(s) - Len(sub) + 1) :
        s[i] = sub[1] /\ SubSeq(s, i, i + Len(sub) - 1) = sub}

\* sub in s
Contains(s, sub) == Occurrences(s, sub) # {}

\* s.replace(old, new): leftmost non-overlapping occurrences, one pass (old is not empty)
RECURSIVE Replace(_, _, _)
Replace(s, old, new) ==
    LET occ == Occurrences(s, old)
    IN  IF occ = {} THEN s
        ELSE LET i == CHOOSE k \in occ : \A j \in occ : k <= j
             IN  SubSeq(s, 1, i - 1) \o new
                 \o Replace(SubSeq(s, i + Len(old), Len(s)), old, new)

\* s.strip()
Strip(s) ==
    LET keep == {i \in 1..Len(s) : s[i] \notin WhiteChars}
    IN  IF keep = {} THEN <<>>
        ELSE SubSeq(s, CHOOSE i \in keep : \A j \in keep : i <= j,
                       CHOOSE i \in keep : \A j \in keep : j <= i)

\* str(n) of an int, as the f-strings format the week number
RECURSIVE NatStr(_)
NatStr(n) == IF n < 10 THEN <<DigitChars[n + 1]>>
             ELSE NatStr(n \div 10) \o <<DigitChars[(n % 10) + 1]>>

IntStr(n) == IF n < 0 THEN <<"-">> \o NatStr(0 - n) ELSE NatStr(n)

\* zero-padded two-digit field of strftime (%d, %m)
Pad2(n) == IF n < 10 THEN <<"0">> \o NatStr(n) ELSE NatStr(n)

\* zero-padded four-digit year of strftime (%Y)
Pad4(n) == IF n < 10 THEN <<"0","0","0">> \o NatStr(n)
           ELSE IF n < 100 THEN <<"0","0">> \o NatStr(n)
           ELSE IF n < 1000 THEN <<"0">> \o NatStr(n)
           ELSE NatStr(n)

---------------------------------------------------------------------------
(* datetime: strptime("%d.%m.%Y"), isocalendar(), timedelta, strftime      *)

IsDigit(c) == c \in DOMAIN DigitOf

DigitVal(c) == DigitOf[c]

RECURSIVE NumVal(_)
NumVal(s) == IF s = <<>> THEN 0
             ELSE 10 * NumVal(SubSeq(s, 1, Len(s) - 1)) + DigitVal(s[Len(s)])

AllDigits(s) == \A i \in 1..Len(s) : IsDigit(s[i])

IsLeap(y) == y % 4 = 0 /\ (y % 100 # 0 \/ y % 400 = 0)

DaysInMonth(y, m) ==
    IF m = 2 THEN (IF IsLeap(y) THEN 29 ELSE 28)
    ELSE IF m \in {4, 6, 9, 11} THEN 30 ELSE 31

\* the text is split at its dots into the fields of the format
DotPositions(s) == {i \in 1..Len(s) : s[i] = "."}

\* datetime.strptime(date_str, "%d.%m.%Y"): a record [ok, y, m, d]; ok = FALSE is ValueError
Strptime(s) ==
    LET dots == DotPositions(s)
        bad  == [ok |-> FALSE, y |-> 0, m |-> 0, d |-> 0]
    IN  IF Cardinality(dots) # 2 THEN bad
        ELSE LET p1 == CHOOSE i \in dots : \A j \in dots : i <= j
                 p2 == CHOOSE i \in dots : \A j \in dots : j <= i
                 ds == SubSeq(s, 1, p1 - 1)
                 ms == SubSeq(s, p1 + 1, p2 - 1)
                 ys == SubSeq(s, p2 + 1, Len(s))
             IN  IF ~(AllDigits(ds) /\ AllDigits(ms) /\ AllDigits(ys)) THEN bad
                 ELSE IF ~(Len(ds) \in {1, 2} /\ Len(ms) \in {1, 2} /\ Len(ys) = 4) THEN bad
                 ELSE LET y == NumVal(ys)
                          m == NumVal(ms)
                          d == NumVal(ds)
                      IN  IF y >= 1 /\ m \in 1..12 /\ d >= 1 /\ d <= DaysInMonth(y, m)
                          THEN [ok |-> TRUE, y |-> y, m |-> m, d |-> d]
                          ELSE bad

DaysBeforeYear(y) ==
    (y - 1) * 365 + ((y - 1) \div 4) - ((y - 1) \div 100) + ((y - 1) \div 400)

RECURSIVE DaysBeforeMonth(_, _)
DaysBeforeMonth(y, m) ==
    IF m = 1 THEN 0 ELSE DaysBeforeMonth(y, m - 1) + DaysInMonth(y, m - 1)

\* date.toordinal(): 01.01.0001 is day 1
Ordinal(y, m, d) == DaysBeforeYear(y) + DaysBeforeMonth(y, m) + d

\* the Monday that starts ISO week 1 of year y (the week of the first Thursday)
IsoWeek1Monday(y) ==
    LET firstday     == Ordinal(y, 1, 1)
        firstweekday == (firstday + 6) % 7
        monday       == firstday - firstweekday
    IN  IF firstweekday > 3 THEN monday + 7 ELSE monday

\* date.isocalendar() of the day with ordinal n in calendar year y: <<ISO year, ISO week>>
IsoCalendar(y, n) ==
    LET week == (n - IsoWeek1Monday(y)) \div 7
    IN  IF n < IsoWeek1Monday(y)
        THEN <<y - 1, ((n - IsoWeek1Monday(y - 1)) \div 7) + 1>>
        ELSE IF week >= 52 /\ n >= IsoWeek1Monday(y + 1)
             THEN <<y + 1, 1>>
             ELSE <<y, week + 1>>

\* the calendar date of ordinal n (the inverse of toordinal)
FromOrdinal(n) ==
    LET y == CHOOSE yy \in (n \div 366)..((n \div 365) + 1) :
                 DaysBeforeYear(yy) < n /\ n <= DaysBeforeYear(yy + 1)
        r == n - DaysBeforeYear(y)
        m == CHOOSE mm \in 1..12 :
                 DaysBeforeMonth(y, mm) < r /\ r <= DaysBeforeMonth(y, mm) + DaysInMonth(y, mm)
    IN  [y |-> y, m |-> m, d |-> r - DaysBeforeMonth(y, m)]

\* strftime("%d.%m.%Y")
Strftime(n) ==
    LET t == FromOrdinal(n)
    IN  Pad2(t.d) \o <<".">> \o Pad2(t.m) \o <<".">> \o Pad4(t.y)

---------------------------------------------------------------------------
(* Configuration and collaborators (src.ConfigManager, settings, document) *)

\* ConfigManager.days: the configured day names, upper-cased as the keys use them
days == <<<<"M","O","N","T","A","G">>, <<"D","I","E","N","S","T","A","G">>, <<"M","I","T","T","W","O","C","H">>, <<"D","O","N","N","E","R","S","T","A","G">>, <<"F","R","E","I","T","A","G">>>>

DaySet == {days[i] : i \in 1..Len(days)}

\* ConfigManager.activitys: activity description -> type, with the NA fallback key
activitys ==
    (<<"A","R","B","E","I","T">> :> <<"B","e","t","r","i","e","b">>) @@ (<<"S","C","H","U","L","E">> :> <<"S","c","h","u","l","e">>) @@ (<<"N","A">> :> <<"S","o","n","s","t","i","g","e","s">>)

\* the settings mapping handed to the constructor
settings ==
    [name |-> <<"M","a","x">>, year |-> <<"2">>, default_hours |-> <<"8">>]

Marker == <<"B","e","r","u","f","s","s","c","h","u","l","e">>

Bullet == <<"-"," "," "," ">>

\* WordTemplate.replace_placeholders(cell, key, value): literal text replacement
replace_placeholders(cell, key, value) == Replace(cell, key, value)

\* WordTemplate.replace_general_placeholders(cell, mapping): every key of the mapping in turn
RECURSIVE replace_general_placeholders(_, _)
replace_general_placeholders(cell, mapping) ==
    IF mapping = <<>> THEN cell
    ELSE replace_general_placeholders(
             replace_placeholders(cell, mapping[1].key, mapping[1].value), Tail(mapping))

---------------------------------------------------------------------------
(* WeekDataProcessor                                                       *)

\* get_week: the ISO week of 'dd.mm.yyyy', -1 when the text does not parse
get_week(date_str) ==
    LET p == Strptime(date_str)
    IN  IF p.ok THEN IsoCalendar(p.y, Ordinal(p.y, p.m, p.d))[2] ELSE -1

\* the logger.error call of get_week: one event per call on an unparsable text
get_week_log(date_str) ==
    IF Strptime(date_str).ok THEN <<>>
    ELSE <<[level |-> "error", text |-> date_str, week |-> 0]>>

\* get_activity_type: exact key, else the NA key, else the literal
get_activity_type(activity) ==
    IF activity \in DOMAIN activitys THEN activitys[activity]
    ELSE IF <<"N","A">> \in DOMAIN activitys THEN activitys[<<"N","A">>]
    ELSE <<"T","A","E","T","I","G","K","E","I","T","_","U","N","B","E","K","A","N","N","T">>

\* relative_week without the "+ 1": weeks counted from 0 (KeysAreRelativeWeeks fails for it)
relative_week_from_zero(date, start_week) == get_week(date) - start_week

\* relative_week = current_week - start_week + 1
relative_week(date, start_week) == get_week(date) - start_week + 1

\* row_entry: one day entry, keyed by the upper-cased day name
row_entry(row) ==
    [day    |-> Upper(row.Tag),
     Art    |-> get_activity_type(Upper(row.Taetigkeit)),
     Inhalt |-> row.Beschreibung]

\* weeks_data.setdefault(relative_week, []).append(row_entry); a dict is its
\* mapping and the insertion order of its keys
setdefault_append(d, k, e) ==
    IF k \in DOMAIN d.map
    THEN [map  |-> [d.map EXCEPT ![k] = Append(@, e)], keys |-> d.keys]
    ELSE [map  |-> d.map @@ (k :> <<e>>), keys |-> Append(d.keys, k)]

\* the loop over the rows of the table, from row i on
RECURSIVE aggregate_rows(_, _, _, _)
aggregate_rows(rows, i, start_week, d) ==
    IF i > Len(rows) THEN d
    ELSE aggregate_rows(rows, i + 1, start_week,
             setdefault_append(d, relative_week(rows[i].Datum, start_week),
                               row_entry(rows[i])))

\* existing_days = {tag for entry in entries for tag in entry.keys()}
existing_days(entries) == {entries[i].day : i \in 1..Len(entries)}

\* missing_days without the subtraction of existing_days
\* (OneEntryPerRecordOrFiller fails for it)
missing_days_all(entries, iter) == SelectSeq(iter, LAMBDA day : day \in DaySet)

\* missing_days = set(days) - existing_days, in the iteration order of the set
missing_days(entries, iter) ==
    SelectSeq(iter, LAMBDA day : day \in DaySet /\ day \notin existing_days(entries))

\* entries.append({day: {"Art": "", "Inhalt": ""}}) for every missing day
fill_entries(entries, iter) ==
    entries \o [i \in 1..Len(missing_days(entries, iter)) |->
                   [day |-> missing_days(entries, iter)[i], Art |-> <<>>, Inhalt |-> <<>>]]

\* the logger.warning calls of one week
fill_log(week, entries, iter) ==
    [i \in 1..Len(missing_days(entries, iter)) |->
        [level |-> "warning", text |-> missing_days(entries, iter)[i], week |-> week]]

RECURSIVE fill_logs(_, _, _)
fill_logs(d, i, iter) ==
    IF i > Len(d.keys) THEN <<>>
    ELSE fill_log(d.keys[i], d.map[d.keys[i]], iter) \o fill_logs(d, i + 1, iter)

\* initialize_weeks_data with a bucket for every week from the lowest to the
\* highest key, the weeks without records included (BucketsOnlyForRecordWeeks
\* fails for it)
initialize_weeks_data_dense(rows, iter) ==
    LET start_week == get_week(rows[1].Datum)
        d  == aggregate_rows(rows, 1, start_week, [map |-> <<>>, keys |-> <<>>])
        lo == CHOOSE w \in DOMAIN d.map : \A v \in DOMAIN d.map : w <= v
        hi == CHOOSE w \in DOMAIN d.map : \A v \in DOMAIN d.map : v <= w
    IN  [map  |-> [w \in lo..hi |->
                      fill_entries(IF w \in DOMAIN d.map THEN d.map[w] ELSE <<>>, iter)],
         keys |-> [i \in 1..(hi - lo + 1) |-> lo + i - 1]]

\* initialize_weeks_data: the dict built from the table, every week completed
initialize_weeks_data(rows, iter) ==
    LET start_week == get_week(rows[1].Datum)
        d == aggregate_rows(rows, 1, start_week, [map |-> <<>>, keys |-> <<>>])
    IN  [map  |-> [w \in DOMAIN d.map |-> fill_entries(d.map[w], iter)],
         keys |-> d.keys]

\* what initialize_weeks_data logs: the errors of get_week, then the warnings
RECURSIVE row_logs(_, _)
row_logs(rows, i) ==
    IF i > Len(rows) THEN <<>>
    ELSE get_week_log(rows[i].Datum) \o row_logs(rows, i + 1)

initialize_log(rows, iter) ==
    LET start_week == get_week(rows[1].Datum)
        d == aggregate_rows(rows, 1, start_week, [map |-> <<>>, keys |-> <<>>])
    IN  get_week_log(rows[1].Datum) \o row_logs(rows, 1) \o fill_logs(d, 1, iter)

\* format_content
format_content(content) ==
    LET c == Strip(Replace(content, Marker, <<>>))
    IN  IF c # <<>>
        THEN Bullet \o Replace(Replace(Replace(c, <<",">>, <<>>), <<"-"," ">>, <<>>),
                               <<"\n">>, <<"\n">> \o Bullet)
        ELSE <<>>

\* calculate_week_range: both dates as text; ok = FALSE is the ValueError of strptime
calculate_week_range(start_date, week_offset) ==
    LET p == Strptime(start_date)
    IN  IF ~p.ok THEN [ok |-> FALSE, start |-> <<>>, end |-> <<>>]
        ELSE LET start == Ordinal(p.y, p.m, p.d) + 7 * week_offset
             IN  [ok |-> TRUE, start |-> Strftime(start), end |-> Strftime(start + 4)]

INHALT == <<"I","N","H","A","L","T">>

STUNDEN == <<"S","T","U","N","D","E","N">>

ART == <<"A","R","T">>

\* day_placeholder without the week number (PlaceholderKeysUnique fails for it)
day_placeholder_no_week(day, field, week) ==
    <<"{">> \o day \o <<"_">> \o field \o <<"}">>

\* the f-strings of the day placeholders: {<day>_<field><week>}
day_placeholder(day, field, week) ==
    <<"{">> \o day \o <<"_">> \o field \o IntStr(week) \o <<"}">>

\* the f-strings of the week placeholders: {DATUM_START<week>}, {DATUM_ENDE<week>}
week_placeholder(name, week) == <<"{">> \o name \o IntStr(week) \o <<"}">>

\* general_placeholders of process_week_placeholders, in the order of the dict literal
general_placeholders(week, range) ==
    << [field |-> <<"N","A","M","E">>, week |-> 0, key |-> <<"{","N","A","M","E","}">>, value |-> settings.name],
       [field |-> <<"A","B","J">>, week |-> 0, key |-> <<"{","A","B","J","}">>, value |-> settings.year],
       [field |-> <<"D","A","T","U","M","_","S","T","A","R","T">>, week |-> week,
        key |-> week_placeholder(<<"D","A","T","U","M","_","S","T","A","R","T">>, week), value |-> range.start],
       [field |-> <<"D","A","T","U","M","_","E","N","D","E">>, week |-> week,
        key |-> week_placeholder(<<"D","A","T","U","M","_","E","N","D","E">>, week), value |-> range.end] >>

\* the lookup with last-match in place of first-match (DuplicatesKeptFirstUsed
\* fails for it)
last_match(entries, day) ==
    IF \E i \in 1..Len(entries) : entries[i].day = day
    THEN CHOOSE i \in 1..Len(entries) :
             entries[i].day = day /\ \A j \in (i + 1)..Len(entries) : entries[j].day # day
    ELSE 0

\* next((entry.get(day, {}) for entry in entries if day in entry), {}): the
\* position of the first entry of the day, 0 when there is none
first_match(entries, day) ==
    IF \E i \in 1..Len(entries) : entries[i].day = day
    THEN CHOOSE i \in 1..Len(entries) :
             entries[i].day = day /\ \A j \in 1..(i - 1) : entries[j].day # day
    ELSE 0

\* data['Art'] left as the classifier set it (TypeOverriddenByMarker fails for it)
day_type_classified(d) == d.Art

\* the value replace_placeholders_for_day assigns to data['Art']
day_type(d) == IF Contains(d.Inhalt, Marker) THEN Marker ELSE d.Art

\* replace_placeholders_for_day: the cell after the three replacements, the
\* value left in data['Art'], and the replacements asked of the document
replace_placeholders_for_day(cell, day, week, d) ==
    LET placeholder_content == day_placeholder(day, INHALT, week)
        placeholder_hours   == day_placeholder(day, STUNDEN, week)
        placeholder_type    == day_placeholder(day, ART, week)
        content == format_content(d.Inhalt)
        art     == day_type(d)
        c1 == replace_placeholders(cell, placeholder_content, content)
        c2 == replace_placeholders(c1, placeholder_hours, settings.default_hours)
        c3 == replace_placeholders(c2, placeholder_type, art)
    IN  [cell  |-> c3,
         Art   |-> art,
         calls |-> <<[day |-> day, week |-> week, field |-> INHALT,
                      key |-> placeholder_content, value |-> content],
                     [day |-> day, week |-> week, field |-> STUNDEN,
                      key |-> placeholder_hours, value |-> settings.default_hours],
                     [day |-> day, week |-> week, field |-> ART,
                      key |-> placeholder_type, value |-> art]>>]

\* the loop "for day in days" on one cell, from day k on: the cell, the
\* entries of the week (data['Art'] is assigned in the entry itself) and the
\* replacements made
RECURSIVE days_loop(_, _, _)
days_loop(st, k, week) ==
    IF k > Len(days) THEN st
    ELSE LET i == first_match(st.entries, days[k])
             d == IF i = 0 THEN [Art |-> <<>>, Inhalt |-> <<>>]
                  ELSE [Art |-> st.entries[i].Art, Inhalt |-> st.entries[i].Inhalt]
             r == replace_placeholders_for_day(st.cell, days[k], week, d)
         IN  days_loop([cell    |-> r.cell,
                        entries |-> IF i = 0 THEN st.entries
                                    ELSE [st.entries EXCEPT ![i].Art = r.Art],
                        calls   |-> st.calls \o r.calls],
                       k + 1, week)

---------------------------------------------------------------------------
(* The input table, the template and the run                               *)

\* the largest number of rows of the input table
MaxRows == 2

\* the 'Datum' column: two consecutive weeks of 2024 (ISO weeks 14 and 15), a
\* week ten weeks later (ISO week 24), a day of 2024 that ISO 8601 counts to
\* week 1 of 2025, and a text that is no date
Dates == {<<"0","1",".","0","4",".","2","0","2","4">>, <<"0","8",".","0","4",".","2","0","2","4">>, <<"1","0",".","0","6",".","2","0","2","4">>, <<"3","0",".","1","2",".","2","0","2","4">>, <<"3","1",".","0","2",".","2","0","2","4">>}

\* the columns 'Tag', 'Tätigkeitsbeschreibung' and 'Beschreibung' of a row
Details ==
    { [Tag |-> <<"M","o","n","t","a","g">>, Taetigkeit |-> <<"A","r","b","e","i","t">>,
       Beschreibung |-> <<"f","o","o",",","b","a","r","\n","b","a","z"," ","-"," ","x">>],
      [Tag |-> <<"M","O","N","T","A","G">>, Taetigkeit |-> <<"P","a","u","s","e">>,
       Beschreibung |-> <<"B","e","r","u","f","s","s","c","h","u","l","e"," ","-"," ","y">>],
      [Tag |-> <<"S","a","m","s","t","a","g">>, Taetigkeit |-> <<"S","c","h","u","l","e">>,
       Beschreibung |-> <<>>] }

Rows ==
    { [Datum |-> dt, Tag |-> x.Tag, Taetigkeit |-> x.Taetigkeit,
       Beschreibung |-> x.Beschreibung] : dt \in Dates, x \in Details }

RECURSIVE Tables(_)
Tables(n) ==
    IF n = 0 THEN {<<>>}
    ELSE LET shorter == Tables(n - 1)
         IN  shorter \cup {Append(t, r) : t \in {s \in shorter : Len(s) = n - 1}, r \in Rows}

\* iteration orders of the Python set missing_days: the order is fixed by the
\* hashes of one interpreter run; the configured order and its reverse stand for them
Reverse(s) == [i \in 1..Len(s) |-> s[Len(s) + 1 - i]]

FillOrders == {days, Reverse(days)}

\* the cells of the tables of the Word template, in iteration order
Template ==
    << <<"{","N","A","M","E","}"," ","{","D","A","T","U","M","_","S","T","A","R","T","1","}"," ","{","M","O","N","T","A","G","_","I","N","H","A","L","T","1","}"," ","{","M","O","N","T","A","G","_","A","R","T","1","}">>,
       <<"{","D","A","T","U","M","_","E","N","D","E","2","}"," ","{","D","I","E","N","S","T","A","G","_","I","N","H","A","L","T","2","}"," ","{","M","O","N","T","A","G","_","A","R","T","1","1","}">> >>

NoGeneral == <<>>

Init ==
    /\ data \in {t \in Tables(MaxRows) : Len(t) >= 1}
    /\ fill \in FillOrders
    /\ pc = "new"
    /\ weeks_data = <<>>
    /\ order = <<>>
    /\ log = <<>>
    /\ wi = 0
    /\ ci = 0
    /\ general = NoGeneral
    /\ document = Template
    /\ calls = <<>>

\* __init__: self.weeks_data = self.initialize_weeks_data()
Construct ==
    /\ pc = "new"
    /\ weeks_data' = initialize_weeks_data(data, fill).map
    /\ order' = initialize_weeks_data(data, fill).keys
    /\ log' = initialize_log(data, fill)
    /\ pc' = "ready"
    /\ UNCHANGED <<data, fill, wi, ci, general, document, calls>>

\* the loop of process_all_weeks has reached the end of a week, or has not started
AtWeekEnd == wi = 0 \/ ci = Len(document)

\* process_week_placeholders, up to the loop over the cells: the week range
\* and the general placeholders of the next week of weeks_data.items()
StartWeek ==
    /\ pc \in {"ready", "running"}
    /\ AtWeekEnd
    /\ wi < Len(order)
    /\ LET week  == order[wi + 1]
           range == calculate_week_range(data[1].Datum, week - 1)
       IN  IF range.ok
           THEN /\ pc' = "running"
                /\ wi' = wi + 1
                /\ ci' = 0
                /\ general' = general_placeholders(week, range)
           ELSE /\ pc' = "raised"
                /\ UNCHANGED <<wi, ci, general>>
    /\ UNCHANGED <<data, fill, weeks_data, order, log, document, calls>>

\* process_week_placeholders, one cell: the general placeholders, then the
\* three placeholders of every configured day
ProcessCell ==
    /\ pc = "running"
    /\ ci < Len(document)
    /\ LET week == order[wi]
           st   == days_loop(
                       [cell    |-> replace_general_placeholders(document[ci + 1], general),
                        entries |-> weeks_data[week],
                        calls   |-> [i \in 1..Len(general) |->
                                       [day |-> <<>>, week |-> general[i].week,
                                        field |-> general[i].field, key |-> general[i].key,
                                        value |-> general[i].value]]],
                       1, week)
       IN  /\ document' = [document EXCEPT ![ci + 1] = st.cell]
           /\ weeks_data' = [weeks_data EXCEPT ![week] = st.entries]
           /\ calls' = st.calls
    /\ ci' = ci + 1
    /\ UNCHANGED <<data, fill, pc, order, log, wi, general>>

\* process_all_weeks returns: weeks_data.items() is exhausted
Finish ==
    /\ pc \in {"ready", "running"}
    /\ AtWeekEnd
    /\ wi = Len(order)
    /\ pc' = "done"
    /\ UNCHANGED <<data, fill, weeks_data, order, log, wi, ci, general, document, calls>>

Next == Construct \/ StartWeek \/ ProcessCell \/ Finish

Spec == Init /\ [][Next]_vars

---------------------------------------------------------------------------
(* Vocabulary of the properties                                            *)

Built == pc # "new"

\* get_week, str.upper() and the classifier on the values the columns can take
WeekOf == [s \in Dates |-> get_week(s)]

DayOf == [t \in {x.Tag : x \in Details} |-> Upper(t)]

TypeOf == [t \in {x.Taetigkeit : x \in Details} |-> get_activity_type(Upper(t))]

\* the Monday of the week of the day with ordinal n (ordinal 1 is a Monday)
MondayOf(n) == n - ((n + 6) % 7)

\* for every date text: whether it parses, the Monday of its week and its ISO year
CalendarOf ==
    [s \in Dates |->
        LET p == Strptime(s)
        IN  IF p.ok
            THEN [ok |-> TRUE, monday |-> MondayOf(Ordinal(p.y, p.m, p.d)),
                  isoyear |-> IsoCalendar(p.y, Ordinal(p.y, p.m, p.d))[1]]
            ELSE [ok |-> FALSE, monday |-> 0, isoyear |-> 0]]

\* the relative week of row i of the table, and its day
RowWeek(i) == WeekOf[data[i].Datum] - WeekOf[data[1].Datum] + 1

RowDay(i) == DayOf[data[i].Tag]

\* the rows of the table that belong to week w, and those of them of one day
RowsOfWeek(w) == {i \in 1..Len(data) : RowWeek(i) = w}

RowsOfDay(w, day) == {i \in 1..Len(data) : RowWeek(i) = w /\ RowDay(i) = day}

Least(S) == CHOOSE i \in S : \A j \in S : i <= j

\* how often a day occurs in a bucket
DayCount(entries, day) == Cardinality({i \in 1..Len(entries) : entries[i].day = day})

\* the replacements of the cell processed last that concern one field of a day
DayCalls(field) == {i \in 1..Len(calls) : calls[i].field = field /\ calls[i].day # <<>>}

---------------------------------------------------------------------------
(* C1: after initialize_weeks_data every bucket holds exactly one entry    *)
(* for each configured day, whatever the table (duplicates included).      *)
(* This is the claim as stated; a week with two records of one day         *)
(* refutes it.                                                             *)
ExactlyOneEntryPerDay ==
    Built => \A w \in DOMAIN weeks_data : \A k \in 1..Len(days) :
                 DayCount(weeks_data[w], days[k]) = 1

(* C1, amended: every bucket holds, for each configured day, one entry per *)
(* record of that week and day, and exactly one (the empty filler) when    *)
(* there is no such record; so no configured day is missing, and a day     *)
(* occurs twice only if the table has two records for it.                  *)
OneEntryPerRecordOrFiller ==
    Built => \A w \in DOMAIN weeks_data : \A k \in 1..Len(days) :
                 LET n == Cardinality(RowsOfDay(w, days[k]))
                 IN  /\ DayCount(weeks_data[w], days[k]) = (IF n = 0 THEN 1 ELSE n)
                     /\ n = 0 =>
                          \E j \in 1..Len(weeks_data[w]) :
                              weeks_data[w][j] = [day |-> days[k], Art |-> <<>>, Inhalt |-> <<>>]

\* a bucket with a day that has two records and a day that was filled in
DuplicateAndFillerBucket ==
    /\ Built
    /\ \E w \in DOMAIN weeks_data :
           /\ \E k \in 1..Len(days) :
                  /\ Cardinality(RowsOfDay(w, days[k])) = 2
                  /\ DayCount(weeks_data[w], days[k]) = 2
           /\ \E k \in 1..Len(days) :
                  /\ RowsOfDay(w, days[k]) = {}
                  /\ DayCount(weeks_data[w], days[k]) = 1

---------------------------------------------------------------------------
(* C2: the substitution phase never changes weeks_data: once built, every  *)
(* bucket and every entry stays what initialize_weeks_data produced.       *)
(* The assignment to data['Art'] in replace_placeholders_for_day writes    *)
(* into the entry of weeks_data, which refutes it.                         *)
WeeksDataReadOnly == [][Built => weeks_data' = weeks_data]_vars

---------------------------------------------------------------------------
(* C3: process_all_weeks processes the weeks in strictly increasing        *)
(* relative-week order, whatever the order of the rows.  The weeks are     *)
(* processed in the insertion order of the dict, which refutes it.         *)
WeeksProcessedIncreasing ==
    \A i \in 1..wi : \A j \in 1..wi : i < j => order[i] < order[j]

---------------------------------------------------------------------------
(* C4: an unparsable date in any record, the first included, is not        *)
(* fatal: every call of get_week on it logs one error and yields -1, and   *)
(* the run never raises.  calculate_week_range parses the first date       *)
(* without a handler, which refutes it.                                    *)
UnparsableDateNeverRaises ==
    /\ pc # "raised"
    /\ Built =>
         /\ \A i \in 1..Len(data) :
                ~CalendarOf[data[i].Datum].ok => WeekOf[data[i].Datum] = -1
         /\ Cardinality({j \in 1..Len(log) : log[j].level = "error"})
                = Cardinality({i \in 1..Len(data) : ~CalendarOf[data[i].Datum].ok})
                  + (IF CalendarOf[data[1].Datum].ok THEN 0 ELSE 1)

---------------------------------------------------------------------------
(* C5: every key of weeks_data is a relative week >= 1.  This is the       *)
(* claim as stated; rows out of order, an unparsable date or a change of   *)
(* the ISO year give keys of 0 and below.                                  *)
KeysAtLeastOne == Built => \A w \in DOMAIN weeks_data : w >= 1

\* row i lies in the ISO year of the first row and not before its week
InFirstYearFromFirstWeek(i) ==
    /\ CalendarOf[data[1].Datum].ok
    /\ CalendarOf[data[i].Datum].ok
    /\ CalendarOf[data[i].Datum].isoyear = CalendarOf[data[1].Datum].isoyear
    /\ CalendarOf[data[i].Datum].monday >= CalendarOf[data[1].Datum].monday

(* C5, amended: every record is stored under ISO_week(date) -             *)
(* ISO_week(first date) + 1, with -1 for the week of an unparsable date;   *)
(* the first record's key is 1; the key of a record is >= 1, and is the    *)
(* number of calendar weeks since the first record's week plus one, when   *)
(* both dates parse, lie in one ISO year and the record is not dated       *)
(* before the first record's week.                                         *)
KeysAreRelativeWeeks ==
    Built =>
      /\ order[1] = 1
      /\ weeks_data[1][1].day = RowDay(1)
      /\ \A i \in 1..Len(data) :
           /\ RowWeek(i) \in DOMAIN weeks_data
           /\ \E j \in 1..Len(weeks_data[RowWeek(i)]) :
                  /\ weeks_data[RowWeek(i)][j].day = RowDay(i)
                  /\ weeks_data[RowWeek(i)][j].Inhalt = data[i].Beschreibung
           /\ InFirstYearFromFirstWeek(i) =>
                \E w \in DOMAIN weeks_data :
                    /\ w >= 1
                    /\ w = ((CalendarOf[data[i].Datum].monday
                             - CalendarOf[data[1].Datum].monday) \div 7) + 1
                    /\ \E j \in 1..Len(weeks_data[w]) :
                           /\ weeks_data[w][j].day = RowDay(i)
                           /\ weeks_data[w][j].Inhalt = data[i].Beschreibung

\* a later record of the same ISO year, ten weeks after the first
LaterWeekKeyed ==
    /\ Built
    /\ \E i \in 2..Len(data) : InFirstYearFromFirstWeek(i) /\ RowWeek(i) = 11
    /\ 11 \in DOMAIN weeks_data

---------------------------------------------------------------------------
---------------------------------------------------------------------------
(* Placeholder keys                                                        *)

Fields == {INHALT, STUNDEN, ART}

\* every substitution target of week w with the key the code derives for it
TargetsOfWeek(w) ==
    {[day |-> days[k], week |-> w, field |-> f, key |-> day_placeholder(days[k], f, w)] :
         k \in 1..Len(days), f \in Fields}
    \cup {[day |-> <<>>, week |-> g.week, field |-> g.field, key |-> g.key] :
             g \in {general_placeholders(w, [start |-> <<>>, end |-> <<>>])[n] : n \in 1..4}}

\* the relative weeks the dates of the 'Datum' column can give
RelativeWeeks == {WeekOf[a] - WeekOf[b] + 1 : a \in Dates, b \in Dates}

TargetsOf == [w \in RelativeWeeks |-> TargetsOfWeek(w)]

TargetsOfRun == UNION {TargetsOf[w] : w \in DOMAIN weeks_data}

(* C7: placeholder keys are deterministic and unique within a run: the     *)
(* replacements of a cell use one key per target (day, week, field, or the *)
(* general NAME, ABJ, DATUM_START<week>, DATUM_ENDE<week>), and a key of   *)
(* one target is never the key of another target of any week of the run.   *)
PlaceholderKeysUnique ==
    calls # <<>> =>
      /\ \A i \in 1..Len(calls) :
             [day |-> calls[i].day, week |-> calls[i].week, field |-> calls[i].field,
              key |-> calls[i].key] \in TargetsOfRun
      /\ Cardinality({t.key : t \in TargetsOfRun}) = Cardinality(TargetsOfRun)
      /\ Cardinality({<<t.day, t.week, t.field>> : t \in TargetsOfRun})
             = Cardinality(TargetsOfRun)

\* the placeholders of a cell were replaced in a run whose weeks are 1 and 11
KeysOfTwoWeeksUsed ==
    /\ Len(calls) = 4 + 3 * Len(days)
    /\ DOMAIN weeks_data = {1, 11}
    /\ wi = 2

---------------------------------------------------------------------------
(* Content formatting as the specification words it                        *)

\* the lines of a text with the dash prefixes at the start of each line
\* removed and the bullet put after every newline
RECURSIVE BulletedLines(_, _)
BulletedLines(s, atStart) ==
    IF s = <<>> THEN <<>>
    ELSE IF atStart /\ StartsWith(s, <<"-"," ">>) THEN BulletedLines(SubSeq(s, 3, Len(s)), TRUE)
    ELSE IF s[1] = "\n" THEN <<"\n">> \o Bullet \o BulletedLines(Tail(s), TRUE)
    ELSE <<s[1]>> \o BulletedLines(Tail(s), FALSE)

ClaimedFormat(content) ==
    LET c == Strip(Replace(content, Marker, <<>>))
    IN  IF c = <<>> THEN <<>>
        ELSE Bullet \o BulletedLines(Replace(c, <<",">>, <<>>), TRUE)

(* C8: format_content removes the marker, trims, gives '' for an empty     *)
(* remainder and otherwise the remainder without commas and without        *)
(* leading dash prefixes only (a dash sequence inside a line is kept),     *)
(* with the bullet before the first line and after every newline.          *)
(* format_content removes every '- ', which refutes it.                    *)
FormatKeepsInnerDashes ==
    \A i \in DayCalls(INHALT) :
        LET e == weeks_data[calls[i].week][first_match(weeks_data[calls[i].week], calls[i].day)]
        IN  calls[i].value = ClaimedFormat(e.Inhalt)

---------------------------------------------------------------------------
(* Duplicate records                                                       *)

\* the n-th smallest element of a set of row numbers
RECURSIVE Nth(_, _)
Nth(S, n) == IF n = 1 THEN Least(S) ELSE Nth(S \ {Least(S)}, n - 1)

(* C9: records of one (week, day) are neither merged nor dropped: the      *)
(* records of a week are the first entries of its bucket, in input order,  *)
(* and the content and type substituted for a day are those of the first   *)
(* record of that week and day, not of a later one or of a filler.         *)
DuplicatesKeptFirstUsed ==
    /\ Built => \A w \in DOMAIN weeks_data :
           /\ Len(weeks_data[w]) >= Cardinality(RowsOfWeek(w))
           /\ \A n \in 1..Cardinality(RowsOfWeek(w)) :
                  /\ weeks_data[w][n].day = RowDay(Nth(RowsOfWeek(w), n))
                  /\ weeks_data[w][n].Inhalt = data[Nth(RowsOfWeek(w), n)].Beschreibung
    /\ \A i \in 1..Len(calls) :
           (calls[i].day # <<>> /\ RowsOfDay(calls[i].week, calls[i].day) # {}) =>
               LET r == data[Least(RowsOfDay(calls[i].week, calls[i].day))]
               IN  /\ calls[i].field = INHALT => calls[i].value = format_content(r.Beschreibung)
                   /\ calls[i].field = ART =>
                          calls[i].value = day_type([Art |-> TypeOf[r.Taetigkeit],
                                                     Inhalt |-> r.Beschreibung])

\* a cell was processed for a week with two records of one day that differ in
\* content and in type
DuplicateDaySubstituted ==
    \E i \in DayCalls(INHALT) :
        LET recs == RowsOfDay(calls[i].week, calls[i].day)
        IN  /\ Cardinality(recs) = 2
            /\ \E a \in recs : \E b \in recs :
                   /\ format_content(data[a].Beschreibung) # format_content(data[b].Beschreibung)
                   /\ Contains(data[a].Beschreibung, Marker)
                   /\ ~Contains(data[b].Beschreibung, Marker)

---------------------------------------------------------------------------
(* Weeks without records                                                   *)

\* the weeks whose placeholders the template carries
TemplateWeeks == {1, 2, 11}

\* the placeholders of week w that the template carries
TemplateKeys ==
    [w \in TemplateWeeks |->
        {t.key : t \in {x \in TargetsOfWeek(w) :
                            /\ x.week = w
                            /\ \E c \in 1..Len(Template) : Contains(Template[c], x.key)}}]

\* how often the template's placeholders of week w occur in a cell
KeyCount(cell, w) ==
    Cardinality(UNION {{<<k, p>> : p \in Occurrences(cell, k)} : k \in TemplateKeys[w]})

TemplateKeyCount ==
    [c \in 1..Len(Template), w \in TemplateWeeks |-> KeyCount(Template[c], w)]

(* C10: a bucket exists for week w exactly if a record maps to w: for a    *)
(* calendar week without records between the first and the last record     *)
(* there is no bucket, no filler, no warning and no substitution of a      *)
(* placeholder of that week, and later weeks keep their calendar index.    *)
BucketsOnlyForRecordWeeks ==
    Built =>
      /\ DOMAIN weeks_data = {RowWeek(i) : i \in 1..Len(data)}
      /\ {order[i] : i \in 1..Len(order)} = DOMAIN weeks_data
      /\ \A j \in 1..Len(log) :
             log[j].level = "warning" => log[j].week \in DOMAIN weeks_data
      /\ \A i \in 1..Len(calls) :
             calls[i].week \in DOMAIN weeks_data \/ calls[i].week = 0
      /\ \A w \in TemplateWeeks \ DOMAIN weeks_data : \A c \in 1..Len(document) :
             KeyCount(document[c], w) = TemplateKeyCount[c, w]

\* the run is over for a table with records in weeks 1 and 11 only, and the
\* placeholders of week 2 are still in the document
GapWeekUntouched ==
    /\ pc = "done"
    /\ DOMAIN weeks_data = {1, 11}
    /\ KeyCount(document[2], 2) = 2
    /\ TemplateKeyCount[2, 11] = 1
    /\ KeyCount(document[2], 11) = 0

====
